---- MODULE Spec2Model ----
(***************************************************************************)
(* Model of flood_monitoring.py: the two cached fetch functions            *)
(* (fetch_stations, fetch_station_readings), the filter / selection /      *)
(* summary steps of main(), and the st.cache_data TTL caches they use.     *)
(*                                                                         *)
(* Python strings are sequences of one-character strings, so that the      *)
(* character-level operations of the source (split, strip, str.contains,   *)
(* f-string concatenation, ordering by code point) are computed and not    *)
(* assumed.  A JSON object is a record whose DOMAIN is the set of keys     *)
(* that are present.  A DataFrame is the sequence of its rows.             *)
(***************************************************************************)
EXTENDS Integers, Sequences, FiniteSets, TLC

VARIABLES
    now,        \* the wall clock, in seconds
    stCache,    \* st.cache_data entry of fetch_stations (one global key)
    rdCache,    \* st.cache_data entries of fetch_station_readings, by station_id
    failed,     \* history: the cache keys whose most recent call ended in a failed fetch
    callSt,     \* record of the fetch_stations() call of the latest run
    callRd,     \* record of the fetch_station_readings() call of the latest run
    requests,   \* the upstream requests issued by the latest run, in order
    view,       \* what the latest run of main() selected and displayed
    runs,       \* number of runs of main() so far
    ticks,      \* number of clock advances so far
    input,      \* arguments of a pipeline step applied on its own
    output,     \* its result
    pc          \* position of that step: "call" before it ran, "done" after

vars == <<now, stCache, rdCache, failed, callSt, callRd, requests, view, runs, ticks, input, output, pc>>

progVars == <<now, stCache, rdCache, failed, callSt, callRd, requests, view, runs, ticks>>

pureVars == <<input, output, pc>>

-----------------------------------------------------------------------------
(* String literals of the source *)

Empty == << >>

Unknown == <<"U", "n", "k", "n", "o", "w", "n">>

AllRivers == <<"A", "l", "l", " ", "R", "i", "v", "e", "r", "s">>

AllStatuses == <<"A", "l", "l", " ", "S", "t", "a", "t", "u", "s", "e", "s">>

Standard == <<"S", "t", "a", "n", "d", "a", "r", "d">>

UnitsUnknown == <<"U", "n", "i", "t", "s", " ", "u", "n", "k", "n", "o", "w", "n">>

CommaSpace == <<",", " ">>

-----------------------------------------------------------------------------
(* Python string operations *)

\* ord(c) for the characters that occur in strings that are ordered
Code(c) ==
    CASE c = " " -> 32
      [] c = "#" -> 35
      [] c = "(" -> 40
      [] c = ")" -> 41
      [] c = "." -> 46
      [] c = "/" -> 47
      [] c = "A" -> 65
      [] c = "B" -> 66
      [] c = "R" -> 82
      [] c = "S" -> 83
      [] c = "a" -> 97
      [] c = "b" -> 98
      [] c = "e" -> 101
      [] c = "i" -> 105
      [] c = "l" -> 108
      [] c = "r" -> 114
      [] c = "s" -> 115
      [] c = "t" -> 116
      [] c = "u" -> 117
      [] c = "v" -> 118

\* c.lower()
Lower(c) ==
    CASE c = "A" -> "a"
      [] c = "B" -> "b"
      [] OTHER -> c

\* s < t for Python strings: lexicographic by code point
RECURSIVE StrLess(_, _)
StrLess(s, t) ==
    IF t = << >> THEN FALSE
    ELSE IF s = << >> THEN TRUE
    ELSE IF Head(s) # Head(t) THEN Code(Head(s)) < Code(Head(t))
    ELSE StrLess(Tail(s), Tail(t))

StrLessEq(s, t) == s = t \/ StrLess(s, t)

\* c in s
HasChar(s, c) == \E i \in 1..Len(s) : s[i] = c

\* s.split(c)[-1]: the text after the last c, the whole of s when c is not in it
SplitLast(s, c) ==
    IF HasChar(s, c)
    THEN LET last == CHOOSE i \in 1..Len(s) :
                         s[i] = c /\ \A j \in (i+1)..Len(s) : s[j] # c
         IN  SubSeq(s, last + 1, Len(s))
    ELSE s

\* s.strip(c): every leading and trailing c removed
Strip(s, c) ==
    LET keep == {i \in 1..Len(s) : s[i] # c}
    IN  IF keep = {} THEN << >>
        ELSE LET lo == CHOOSE i \in keep : \A j \in keep : i <= j
                 hi == CHOOSE i \in keep : \A j \in keep : j <= i
             IN  SubSeq(s, lo, hi)

\* sep.join(parts)
RECURSIVE Join(_, _)
Join(sep, parts) ==
    IF parts = << >> THEN << >>
    ELSE IF Len(parts) = 1 THEN parts[1]
    ELSE parts[1] \o sep \o Join(sep, Tail(parts))

\* re match of one pattern character against one subject character under
\* re.IGNORECASE; the pattern language modelled is literals and "." (any
\* character but newline, and no modelled string holds a newline)
ReMatchChar(p, c) == p = "." \/ Lower(p) = Lower(c)

\* re.search(pat, s, re.IGNORECASE) is not None
ReSearch(pat, s) ==
    \E off \in 0..(Len(s) - Len(pat)) :
        \A j \in 1..Len(pat) : ReMatchChar(pat[j], s[off + j])

\* Series.unique(): the distinct values in order of first appearance
RECURSIVE Unique(_)
Unique(s) ==
    IF s = << >> THEN << >>
    ELSE LET init == Unique(SubSeq(s, 1, Len(s) - 1))
             x    == s[Len(s)]
         IN  IF \E i \in 1..Len(init) : init[i] = x THEN init ELSE Append(init, x)

\* [f(x) for x in s]
Map(s, F(_)) == [i \in 1..Len(s) |-> F(s[i])]

\* dict.get(key, default)
Get(d, key, default) == IF key \in DOMAIN d THEN d[key] ELSE default

\* the orderings of the rows of df
Arrangements(df) ==
    LET n == Len(df)
        perms == {p \in [1..n -> 1..n] : \A i, j \in 1..n : i # j => p[i] # p[j]}
    IN  {[i \in 1..n |-> df[p[i]]] : p \in perms}

-----------------------------------------------------------------------------
(* Program constants *)

STATIONS_TTL == 3600

READINGS_TTL == 300

DAY_SECONDS == 86400

-----------------------------------------------------------------------------
(* fetch_stations: the body that runs on a cache miss *)

\* lines 46-48: the status, reduced to the text after the last "#"
StationStatus(item) ==
    LET status == Get(item, "status", Unknown)
    IN  IF HasChar(status, "#") THEN SplitLast(status, "#") ELSE status

\* lines 50-60: one catalog row (the columns town, catchment, lat, long and
\* measures are only printed, no decision reads them, and they are left out)
StationInfo(item) ==
    [id     |-> Get(item, "stationReference", Empty),
     label  |-> Get(item, "label", Empty),
     river  |-> Get(item, "riverName", Unknown),
     status |-> StationStatus(item)]

\* variant: one of the two required fields is enough
HasEitherField(item) == "label" \in DOMAIN item \/ "stationReference" \in DOMAIN item

\* line 44: the items that become rows
HasRequiredFields(item) == "label" \in DOMAIN item /\ "stationReference" \in DOMAIN item

\* lines 41-61: the rows, in the order of the items
ExtractStations(items) == Map(SelectSeq(items, HasRequiredFields), StationInfo)

\* rows in ascending order of label
LabelAscending(df) == \A i \in 1..(Len(df) - 1) : StrLessEq(df[i].label, df[i+1].label)

\* line 65: df.sort_values("label").  The default sort kind is not stable, so
\* rows with equal labels may come out in any order: every ascending
\* arrangement is a possible result.
SortValuesLabel(df) == {a \in Arrangements(df) : LabelAscending(a)}

\* lines 35-68.  resp is the upstream's answer to the one GET: a transport
\* failure, a non-2xx status, or a JSON body with its items.  The result is
\* the set of outcomes the call can have: a returned DataFrame (with the
\* st.error notice when the fetch failed), or an exception that leaves the
\* function.  A DataFrame built from no rows has no "label" column and
\* sort_values raises KeyError, which the except clause does not catch.
FetchStationsBody(resp) ==
    IF resp.kind # "ok"
    THEN {[outcome |-> "returned", df |-> << >>, notice |-> TRUE, fetchFailed |-> TRUE]}
    ELSE LET stations == ExtractStations(resp.items)
         IN  IF stations = << >>
             THEN {[outcome |-> "raised", df |-> << >>, notice |-> FALSE, fetchFailed |-> FALSE]}
             ELSE {[outcome |-> "returned", df |-> d, notice |-> FALSE, fetchFailed |-> FALSE] :
                      d \in SortValuesLabel(stations)}

-----------------------------------------------------------------------------
(* fetch_station_readings: the body that runs on a cache miss *)

\* A dateTime string is modelled by what pd.to_datetime makes of it: an ISO
\* text carries its instant, the empty string parses to NaT, anything else
\* does not parse.
IsoTime(t) == [text |-> "iso", instant |-> t]

EmptyTime == [text |-> "empty"]

GarbageTime == [text |-> "garbage"]

\* a measure that is a plain string (a link) and no JSON object
StringMeasure == [str |-> TRUE]

\* isinstance(measure, dict)
IsDict(measure) == "str" \notin DOMAIN measure

\* the measure of an item that has none: {}
EmptyDict == [x \in {} |-> Empty]

\* lines 96-108: one reading row
ReadingInfo(item) ==
    LET measure == Get(item, "measure", EmptyDict)
    IN  [dateTime   |-> Get(item, "dateTime", EmptyTime),
         value      |-> item.value,
         parameter  |-> IF IsDict(measure) THEN Get(measure, "parameter", Unknown) ELSE Unknown,
         qualifier  |-> IF IsDict(measure) THEN Get(measure, "qualifier", Empty) ELSE Empty,
         unit       |-> IF IsDict(measure) THEN Get(measure, "unitName", Empty) ELSE Empty,
         measure_id |-> IF IsDict(measure) /\ "@id" \in DOMAIN measure
                        THEN SplitLast(measure["@id"], "/") ELSE Empty]

\* line 115: pd.to_datetime parses every row or raises
Parseable(df) == \A i \in 1..Len(df) : df[i].dateTime.text # "garbage"

\* lines 84-120.  Rows keep the order of the items: there is no sort.
FetchReadingsBody(resp) ==
    IF resp.kind # "ok"
    THEN [outcome |-> "returned", df |-> << >>, notice |-> TRUE, fetchFailed |-> TRUE]
    ELSE LET df == Map(resp.items, ReadingInfo)
         IN  IF df # << >> /\ ~Parseable(df)
             THEN [outcome |-> "raised", df |-> << >>, notice |-> FALSE, fetchFailed |-> FALSE]
             ELSE [outcome |-> "returned", df |-> df, notice |-> FALSE, fetchFailed |-> FALSE]

\* variant: the window is one hour
SinceTimeHour(t) == t - STATIONS_TTL

\* line 82: the lower bound of the window requested at time t
SinceTime(t) == t - DAY_SECONDS

-----------------------------------------------------------------------------
(* main(): filter, selection and summary steps *)

\* line 158: Series.str.contains(search_query, case=False, na=False); the
\* pattern is a regular expression (regex=True is the default)
LabelContains(label, search_query) == ReSearch(search_query, label)

\* lines 155-164
FilterStations(stations_df, search_query, selected_river, selected_status) ==
    LET byQuery  == IF search_query # Empty
                    THEN SelectSeq(stations_df, LAMBDA r : LabelContains(r.label, search_query))
                    ELSE stations_df
        byRiver  == IF selected_river # AllRivers
                    THEN SelectSeq(byQuery, LAMBDA r : r.river = selected_river)
                    ELSE byQuery
        byStatus == IF selected_status # AllStatuses
                    THEN SelectSeq(byRiver, LAMBDA r : r.status = selected_status)
                    ELSE byRiver
    IN  byStatus

\* lines 143-145: the choices of the river selectbox (their display order,
\* sorted(), does not change what can be chosen)
RiverOptions(stations_df) ==
    {AllRivers} \cup ({stations_df[i].river : i \in 1..Len(stations_df)} \ {Unknown, Empty})

\* lines 149-151: the choices of the status selectbox
StatusOptions(stations_df) ==
    {AllStatuses} \cup ({stations_df[i].status : i \in 1..Len(stations_df)} \ {Unknown})

\* line 171: f"{row['label']} ({row['id']})"
StationOption(row) == row.label \o <<" ", "(">> \o row.id \o <<")">>

\* line 175: selected_station_str.split("(")[-1].strip(")")
ExtractStationId(selected_station_str) == Strip(SplitLast(selected_station_str, "("), ")")

\* line 178: filtered_df[filtered_df["id"] == selected_station_id]
RowsWithId(filtered_df, selected_station_id) ==
    SelectSeq(filtered_df, LAMBDA r : r.id = selected_station_id)

\* lines 213-222: the sub-sequence of the chosen parameter; pick is the
\* position the user chose in the parameter selectbox
Parameters(readings_df) == Unique(Map(readings_df, LAMBDA r : r.parameter))

MeasureDf(readings_df, pick) ==
    LET parameters == Parameters(readings_df)
    IN  IF Len(parameters) > 1
        THEN SelectSeq(readings_df, LAMBDA r : r.parameter = parameters[pick])
        ELSE readings_df

\* lines 226-227
QualifierStr(measure_df) ==
    LET qualifiers == Unique(Map(measure_df, LAMBDA r : r.qualifier))
    IN  IF Len(qualifiers) > 0 /\ qualifiers[1] # Empty
        THEN Join(CommaSpace, SelectSeq(qualifiers, LAMBDA q : q # Empty))
        ELSE Standard

\* line 228
UnitStr(measure_df) ==
    IF measure_df[1].unit # Empty THEN measure_df[1].unit ELSE UnitsUnknown

\* variant: the last row
LastValue(measure_df) == measure_df[Len(measure_df)].value

\* line 260: measure_df['value'].iloc[0]
LatestValue(measure_df) == measure_df[1].value

-----------------------------------------------------------------------------
(* st.cache_data(ttl=...): one entry per argument tuple; an entry answers   *)
(* calls made less than ttl seconds after it was stored.  The value a call  *)
(* returns is stored, whatever it is; a call that raises stores nothing.    *)
(* The st.error element a call showed is stored with the value and shown    *)
(* again when the entry answers a call.                                     *)

\* the argument tuple of fetch_stations()
NoArgs == << >>

\* variant: the entry still answers at the second it expires
CacheHitInclusive(cache, key, ttl, t) == key \in DOMAIN cache /\ t <= cache[key].at + ttl

CacheHit(cache, key, ttl, t) == key \in DOMAIN cache /\ t < cache[key].at + ttl

CacheStore(cache, key, entry) ==
    [k \in DOMAIN cache \cup {key} |-> IF k = key THEN entry ELSE cache[k]]

\* the record of a call that was not made
NoCall == [made |-> FALSE]

\* variant: a failed GET is sent a second time
StationsRequestsRetry(resp) ==
    IF resp.kind = "ok"
    THEN <<[endpoint |-> "stations"]>>
    ELSE <<[endpoint |-> "stations"], [endpoint |-> "stations"]>>

\* line 36: the GET of fetch_stations, issued once per execution of the body
StationsRequests(resp) == <<[endpoint |-> "stations"]>>

\* lines 85-88: the GET of fetch_station_readings, issued once per execution
ReadingsRequests(station_id, since_time, resp) ==
    <<[endpoint |-> "readings", station_id |-> station_id, since |-> since_time]>>

\* lines 27-28: a call of fetch_stations() at time t.  The set of its possible
\* results, each with the call's record, the cache after it and the requests
\* it issued.
CachedFetchStations(cache, t, resp) ==
    IF CacheHit(cache, NoArgs, STATIONS_TTL, t)
    THEN {[call  |-> [made |-> TRUE, at |-> t, issued |-> FALSE, outcome |-> "returned",
                      df |-> cache[NoArgs].df, notice |-> cache[NoArgs].notice,
                      fetchFailed |-> cache[NoArgs].fetchFailed,
                      fetchedAt |-> cache[NoArgs].at],
           cache |-> cache,
           reqs  |-> << >>]}
    ELSE {[call  |-> [made |-> TRUE, at |-> t, issued |-> TRUE, outcome |-> o.outcome,
                      df |-> o.df, notice |-> o.notice, fetchFailed |-> o.fetchFailed,
                      fetchedAt |-> t],
           cache |-> IF o.outcome = "returned"
                     THEN CacheStore(cache, NoArgs,
                                     [at |-> t, df |-> o.df, notice |-> o.notice,
                                      fetchFailed |-> o.fetchFailed])
                     ELSE cache,
           reqs  |-> StationsRequests(resp)] : o \in FetchStationsBody(resp)}

\* lines 70-71: a call of fetch_station_readings(station_id) at time t
CachedFetchReadings(cache, station_id, t, resp) ==
    IF CacheHit(cache, station_id, READINGS_TTL, t)
    THEN [call  |-> [made |-> TRUE, key |-> station_id, at |-> t, issued |-> FALSE,
                     outcome |-> "returned",
                     df |-> cache[station_id].df, notice |-> cache[station_id].notice,
                     fetchFailed |-> cache[station_id].fetchFailed,
                     fetchedAt |-> cache[station_id].at,
                     since |-> cache[station_id].since],
          cache |-> cache,
          reqs  |-> << >>]
    ELSE LET o == FetchReadingsBody(resp)
         IN  [call  |-> [made |-> TRUE, key |-> station_id, at |-> t, issued |-> TRUE,
                         outcome |-> o.outcome,
                         df |-> o.df, notice |-> o.notice, fetchFailed |-> o.fetchFailed,
                         fetchedAt |-> t,
                         since |-> SinceTime(t)],
              cache |-> IF o.outcome = "returned"
                        THEN CacheStore(cache, station_id,
                                        [at |-> t, df |-> o.df, notice |-> o.notice,
                                         fetchFailed |-> o.fetchFailed,
                                         since |-> SinceTime(t)])
                        ELSE cache,
              reqs  |-> ReadingsRequests(station_id, SinceTime(t), resp)]

\* the keys whose most recent call ended in a failed fetch, after call c of key k
FailedAfter(set, k, c) ==
    IF ~c.made THEN set
    ELSE IF c.outcome = "returned" /\ c.fetchFailed THEN set \cup {k}
    ELSE set \ {k}

StationsKey == [fn |-> "fetch_stations", args |-> NoArgs]

ReadingsKey(station_id) == [fn |-> "fetch_station_readings", args |-> station_id]

-----------------------------------------------------------------------------
(* Bounds and input domains of the runs of main() *)

MaxRuns == 2

MaxTicks == 1

\* the clock advances: to the last second an entry is live and to the first
\* second it is expired, for each TTL
TickSteps == {READINGS_TTL - 1, READINGS_TTL, STATIONS_TTL - 1, STATIONS_TTL}

StationS ==
    [stationReference |-> <<"s">>, label |-> <<"b">>, riverName |-> <<"R">>,
     status |-> <<"u", "#", "A">>]

StationT == [stationReference |-> <<"t">>, label |-> <<"a">>]

ReadingLevel ==
    [dateTime |-> IsoTime(1), value |-> 5,
     measure |-> [parameter |-> <<"l">>, unitName |-> <<"m">>]]

ReadingFlow ==
    [dateTime |-> IsoTime(2), value |-> 7, measure |-> [parameter |-> <<"f">>]]

ReadingGarbage == [dateTime |-> GarbageTime, value |-> 7]

\* a transport failure (requests.get raises) and a non-2xx status
\* (raise_for_status raises): both are RequestException
Failures == {[kind |-> "network"], [kind |-> "http"]}

\* the upstream's answers to GET /id/stations
StationResponses ==
    Failures \cup {[kind |-> "ok", items |-> l] :
                      l \in {<< >>, <<StationS>>, <<StationS, StationT>>}}

\* the upstream's answers to GET /id/stations/{id}/readings
ReadingResponses ==
    Failures \cup {[kind |-> "ok", items |-> l] :
                      l \in {<< >>, <<ReadingLevel, ReadingFlow>>, <<ReadingGarbage>>}}

\* the upstream's answers to a call: none is drawn for a call that sends no request
NotAsked == [kind |-> "not asked"]

Upstream(asked, responses) == IF asked THEN responses ELSE {NotAsked}

RunQueries == {Empty, <<"a">>}

\* the positions a selectbox over xs offers (one unused position when the
\* selectbox is not shown)
Positions(xs) == IF xs = << >> THEN {1} ELSE 1..Len(xs)

-----------------------------------------------------------------------------
(* main() *)

\* lines 129-197, after fetch_stations() returned stations_df: the filter
\* widgets' values and the position i the user picks in the station selectbox
\* are the inputs.  The result is the filtered set, the row the user picked
\* and the station the code selected for it.
SelectStation(stations_df, search_query, selected_river, selected_status, i) ==
    IF stations_df = << >>
    THEN [outcome |-> "load failed"]
    ELSE
    LET filtered_df == FilterStations(stations_df, search_query, selected_river, selected_status)
    IN
    IF filtered_df = << >>
    THEN [outcome |-> "no match", filtered_df |-> filtered_df]
    ELSE
    LET selected_station_str == StationOption(filtered_df[i])
        selected_station_id  == ExtractStationId(selected_station_str)
        rows                 == RowsWithId(filtered_df, selected_station_id)
    IN
    IF rows = << >>
    THEN \* line 178: iloc[0] of no rows raises IndexError
         [outcome |-> "raised", filtered_df |-> filtered_df, picked |-> filtered_df[i],
          selected_station_id |-> selected_station_id]
    ELSE [outcome |-> "selected", filtered_df |-> filtered_df, picked |-> filtered_df[i],
          selected_station_id |-> selected_station_id, selected_station |-> rows[1]]

\* line 200: readings are fetched for a selected station whose id is truthy
ReadingsWanted(sel) == sel.outcome = "selected" /\ sel.selected_station_id # Empty

\* lines 200-290: the readings of the selected station and their summary.
\* resp is the upstream's answer to a readings request, pick the position the
\* user picks in the parameter selectbox.  The result is what the run shows,
\* the record of its fetch_station_readings call, the readings cache after it
\* and the requests it issued.
ShowReadings(sel, cache, t, resp, pick) ==
    IF ~ReadingsWanted(sel)
    THEN [view |-> sel, call |-> NoCall, cache |-> cache, reqs |-> << >>]
    ELSE
    LET rd == CachedFetchReadings(cache, sel.selected_station_id, t, resp)
        readings_df == rd.call.df
        heading == [heading |-> sel.selected_station.label]
    IN
    IF rd.call.outcome = "raised"
    THEN [view |-> [outcome |-> "raised"] @@ heading @@ sel,
          call |-> rd.call, cache |-> rd.cache, reqs |-> rd.reqs]
    ELSE IF readings_df = << >>
    THEN [view |-> [outcome |-> "no readings"] @@ heading @@ sel,
          call |-> rd.call, cache |-> rd.cache, reqs |-> rd.reqs]
    ELSE IF \A k \in 1..Len(readings_df) : readings_df[k].dateTime.text = "empty"
    THEN \* line 209: min() of an all-NaT column is NaT, whose strftime raises
         [view |-> [outcome |-> "raised"] @@ heading @@ sel,
          call |-> rd.call, cache |-> rd.cache, reqs |-> rd.reqs]
    ELSE
    LET measure_df == MeasureDf(readings_df, pick)
    IN  [view |-> [outcome |-> "readings", parameters |-> Parameters(readings_df),
                   measure_df |-> measure_df,
                   qualifier_str |-> QualifierStr(measure_df),
                   unit |-> UnitStr(measure_df),
                   latest |-> LatestValue(measure_df)] @@ heading @@ sel,
         call |-> rd.call, cache |-> rd.cache, reqs |-> rd.reqs]

\* the record of a call, with whether the previous call of its key had failed
Recorded(call, key, failedKeys) ==
    IF call.made THEN call @@ [prevFailed |-> key \in failedKeys] ELSE call

\* lines 123-126, then the rest of main(): one run of the script at time now
Main ==
    /\ runs < MaxRuns
    /\ \E respSt \in Upstream(~CacheHit(stCache, NoArgs, STATIONS_TTL, now), StationResponses) :
       \E st \in CachedFetchStations(stCache, now, respSt) :
          /\ stCache' = st.cache
          /\ callSt' = Recorded(st.call, StationsKey, failed)
          /\ IF st.call.outcome = "raised"
             THEN /\ view' = [outcome |-> "raised"]
                  /\ callRd' = NoCall
                  /\ rdCache' = rdCache
                  /\ requests' = st.reqs
                  /\ failed' = FailedAfter(failed, StationsKey, st.call)
             ELSE \E search_query \in RunQueries,
                     selected_river \in RiverOptions(st.call.df),
                     selected_status \in StatusOptions(st.call.df) :
                  \E i \in Positions(FilterStations(st.call.df, search_query,
                                                    selected_river, selected_status)) :
                  \E sel \in {SelectStation(st.call.df, search_query, selected_river,
                                             selected_status, i)} :
                  \E resp \in Upstream(/\ ReadingsWanted(sel)
                                       /\ ~CacheHit(rdCache, sel.selected_station_id,
                                                    READINGS_TTL, now),
                                       ReadingResponses),
                     pick \in {1, 2} :
                  \E r \in {ShowReadings(sel, rdCache, now, resp, pick)} :
                  \E k \in {ReadingsKey(IF r.call.made THEN r.call.key ELSE Empty)} :
                     /\ pick \in Positions(IF r.view.outcome = "readings"
                                            THEN r.view.parameters ELSE << >>)
                     /\ view' = r.view
                     /\ callRd' = Recorded(r.call, k, failed)
                     /\ rdCache' = r.cache
                     /\ requests' = st.reqs \o r.reqs
                     /\ failed' = FailedAfter(FailedAfter(failed, StationsKey, st.call),
                                              k, r.call)
    /\ runs' = runs + 1
    /\ UNCHANGED <<now, ticks, input, output, pc>>

\* time passes between two runs
Tick ==
    /\ ticks < MaxTicks
    /\ \E d \in TickSteps : now' = now + d
    /\ ticks' = ticks + 1
    /\ UNCHANGED <<stCache, rdCache, failed, callSt, callRd, requests, view, runs,
                   input, output, pc>>

\* the empty cache: a function with no key
EmptyCache == [k \in {} |-> NoCall]

Idle == [step |-> "none"]

Init ==
    /\ now = 0
    /\ stCache = EmptyCache
    /\ rdCache = EmptyCache
    /\ failed = {}
    /\ callSt = NoCall
    /\ callRd = NoCall
    /\ requests = << >>
    /\ view = [outcome |-> "not run"]
    /\ runs = 0
    /\ ticks = 0
    /\ input = Idle
    /\ output = Idle
    /\ pc = "idle"

Next == Main \/ Tick

Spec == Init /\ [][Next]_vars

-----------------------------------------------------------------------------
(* Claims about the cached fetches and the runs of main(), under Spec *)

\* C1 (as stated): a failed fetch is never cached: when the previous call of
\* a key ended in a network or HTTP failure, the next call of that key issues
\* a new upstream request, also inside the TTL window of the failed call.
C1_FailedFetchIsRetried ==
    /\ (callSt.made /\ callSt.prevFailed) => callSt.issued
    /\ (callRd.made /\ callRd.prevFailed) => callRd.issued

\* C2: while an entry stored by a successful fetch at time t is live
\* (now < t + TTL), a call of its key issues no request and returns the stored
\* sequence; the stations entry has the one key () and TTL 3600, a readings
\* entry the key station_id and TTL 300; a call whose key has no entry (other
\* stations' entries do not count) or whose entry has reached t + TTL issues
\* a new request.
C2_LiveEntryAnswersItsKey ==
    [][runs' = runs + 1 =>
        /\ (/\ NoArgs \in DOMAIN stCache
            /\ ~stCache[NoArgs].fetchFailed
            /\ now < stCache[NoArgs].at + STATIONS_TTL)
              => (/\ ~callSt'.issued
                  /\ callSt'.outcome = "returned"
                  /\ callSt'.df = stCache[NoArgs].df)
        /\ (NoArgs \notin DOMAIN stCache \/ now >= stCache[NoArgs].at + STATIONS_TTL)
              => callSt'.issued
        /\ callRd'.made =>
             LET k == callRd'.key
             IN  /\ (/\ k \in DOMAIN rdCache
                     /\ ~rdCache[k].fetchFailed
                     /\ now < rdCache[k].at + READINGS_TTL)
                       => (/\ ~callRd'.issued
                           /\ callRd'.outcome = "returned"
                           /\ callRd'.df = rdCache[k].df)
                 /\ (k \notin DOMAIN rdCache \/ now >= rdCache[k].at + READINGS_TTL)
                       => callRd'.issued
    ]_vars

\* C2 witness: a readings call answered from its station's entry in the last
\* second the entry is live, with rows in it
C2_Witness ==
    /\ callRd.made
    /\ ~callRd.issued
    /\ ~callRd.fetchFailed
    /\ callRd.df # << >>
    /\ callRd.at = callRd.fetchedAt + READINGS_TTL - 1

\* C3 (as stated): whatever the upstream answers, both fetch functions return
\* a result and no exception leaves them; on a network or HTTP failure the
\* result is empty and an error notice is shown.
C3_NoExceptionEscapes ==
    /\ callSt.made =>
         /\ callSt.outcome = "returned"
         /\ callSt.fetchFailed => (callSt.df = << >> /\ callSt.notice)
    /\ callRd.made =>
         /\ callRd.outcome = "returned"
         /\ callRd.fetchFailed => (callRd.df = << >> /\ callRd.notice)

\* C4 (as stated): every result fetch_station_readings returns at call time t
\* covers the window with lower bound t - 24h, also when served from the cache.
C4_WindowFromCallTime ==
    (callRd.made /\ callRd.outcome = "returned") => callRd.since = callRd.at - DAY_SECONDS

\* C4 (amended): the window's lower bound is t0 - 24h, where t0 is the time of
\* the call that sent the request: t0 is the call time t on a cache miss, and
\* on a cache hit the time the answering entry was stored, t - 300 < t0 <= t.
C4_WindowFromFetchTime ==
    (callRd.made /\ callRd.outcome = "returned") =>
        /\ callRd.since = callRd.fetchedAt - DAY_SECONDS
        /\ callRd.fetchedAt <= callRd.at
        /\ callRd.at < callRd.fetchedAt + READINGS_TTL
        /\ callRd.issued =>
             /\ callRd.fetchedAt = callRd.at
             /\ requests[Len(requests)].since = callRd.at - DAY_SECONDS

\* C4 witness: a readings result served from the cache after the clock moved
C4_Witness ==
    /\ callRd.made
    /\ ~callRd.issued
    /\ callRd.at > callRd.fetchedAt
    /\ callRd.df # << >>

\* C9 (as stated): one run of main() issues at most one upstream request.
C9_AtMostOneRequest == Len(requests) <= 1

\* C9 (amended): one run of main() issues at most two upstream requests, at
\* most one to each endpoint: the stations request when the stations entry is
\* absent or expired, then the readings request of the selected station when
\* its entry is absent or expired.
C9_AtMostOneRequestPerEndpoint ==
    /\ Len(requests) <= 2
    /\ \A a, b \in 1..Len(requests) : a # b => requests[a].endpoint # requests[b].endpoint
    /\ Len(requests) = (IF callSt.made /\ callSt.issued THEN 1 ELSE 0)
                       + (IF callRd.made /\ callRd.issued THEN 1 ELSE 0)

\* C9 witness: a run that sent both requests
C9_Witness ==
    /\ Len(requests) = 2
    /\ callSt.issued
    /\ callRd.made /\ callRd.issued

-----------------------------------------------------------------------------
(* The steps of the pipeline on their own: Init draws the arguments, the    *)
(* action applies the step.  The caches and the clock stay as constructed.  *)

\* sequences over S of length at most n, and of length 1 to n
SeqsUpTo(S, n) == UNION {[1..k -> S] : k \in 0..n}

NonEmptySeqs(S, n) == UNION {[1..k -> S] : k \in 1..n}

Constructed ==
    /\ now = 0
    /\ stCache = EmptyCache
    /\ rdCache = EmptyCache
    /\ failed = {}
    /\ callSt = NoCall
    /\ callRd = NoCall
    /\ requests = << >>
    /\ view = [outcome |-> "not run"]
    /\ runs = 0
    /\ ticks = 0

\* ---- fetch_stations on a success response ----

MaxItems == 3

\* an upstream station item: each of label and stationReference present or not
CatalogItems ==
    {[stationReference |-> r, label |-> l] : r \in {<<"s">>, <<"t">>}, l \in {<<"a">>, <<"B">>}}
    \cup {[stationReference |-> r] : r \in {<<"s">>, <<"t">>}}
    \cup {[label |-> l, status |-> <<"u", "#", "A">>] : l \in {<<"a">>, <<"B">>}}
    \cup {[riverName |-> <<"R">>]}

InitCatalog ==
    /\ Constructed
    /\ input \in {[items |-> l] : l \in SeqsUpTo(CatalogItems, MaxItems)}
    /\ output = Idle
    /\ pc = "call"

\* fetch_stations() on an empty cache, the upstream answering with input.items
BuildCatalog ==
    /\ pc = "call"
    /\ \E o \in FetchStationsBody([kind |-> "ok", items |-> input.items]) : output' = o
    /\ pc' = "done"
    /\ UNCHANGED <<now, stCache, rdCache, failed, callSt, callRd, requests, view, runs,
                   ticks, input>>

SpecCatalog == InitCatalog /\ [][BuildCatalog]_vars

\* the positions of the items that carry both required fields
Complete(items) ==
    {k \in 1..Len(items) : {"label", "stationReference"} \subseteq DOMAIN items[k]}

MaxFilterRows == 2

MaxQueryLen == 2

FilterRows ==
    {[id |-> <<"s">>, label |-> l, river |-> r, status |-> st] :
        l \in {<<"a">>, <<"A", "b">>}, r \in {<<"R">>, Unknown}, st \in {<<"A">>, Unknown}}

QueryChars == {"a", "b", "."}

InitFilter ==
    /\ Constructed
    /\ input \in {[stations_df |-> df, search_query |-> q, selected_river |-> r,
                   selected_status |-> st] :
                     df \in {d \in NonEmptySeqs(FilterRows, MaxFilterRows) : LabelAscending(d)},
                     q \in SeqsUpTo(QueryChars, MaxQueryLen),
                     r \in {AllRivers, <<"R">>},
                     st \in {AllStatuses, <<"A">>}}
    /\ input.selected_river \in RiverOptions(input.stations_df)
    /\ input.selected_status \in StatusOptions(input.stations_df)
    /\ output = Idle
    /\ pc = "call"

\* lines 155-164 on a loaded catalog, and the same filter on its own result
ApplyFilter ==
    /\ pc = "call"
    /\ LET once == FilterStations(input.stations_df, input.search_query,
                                  input.selected_river, input.selected_status)
       IN  output' = [filtered_df |-> once,
                      again |-> FilterStations(once, input.search_query,
                                               input.selected_river, input.selected_status)]
    /\ pc' = "done"
    /\ UNCHANGED <<now, stCache, rdCache, failed, callSt, callRd, requests, view, runs,
                   ticks, input>>

SpecFilter == InitFilter /\ [][ApplyFilter]_vars

\* s with every character lowered
LowerStr(s) == [k \in 1..Len(s) |-> Lower(s[k])]

\* sub occurs in s as a contiguous run of characters
IsSubstring(sub, s) ==
    \E off \in 0..(Len(s) - Len(sub)) : SubSeq(s, off + 1, off + Len(sub)) = sub

\* the three predicates of the claim, together
Retained(row, inp) ==
    /\ inp.search_query # Empty => IsSubstring(LowerStr(inp.search_query), LowerStr(row.label))
    /\ inp.selected_river # AllRivers => row.river = inp.selected_river
    /\ inp.selected_status # AllStatuses => row.status = inp.selected_status

\* C5 (as stated): the filter returns exactly the stations that satisfy all
\* active predicates (label contains the query as a case-insensitive
\* substring, river equal, status equal), in input order; with the default
\* predicates the output is the input; filtering the output again changes
\* nothing.
C5_FilterIsSubstringAndEquality ==
    pc = "done" =>
        /\ output.filtered_df = SelectSeq(input.stations_df, LAMBDA row : Retained(row, input))
        /\ (/\ input.search_query = Empty
            /\ input.selected_river = AllRivers
            /\ input.selected_status = AllStatuses) => output.filtered_df = input.stations_df
        /\ output.again = output.filtered_df

\* ---- the summary step of main() ----

MaxReadings == 2

\* rows of a readings DataFrame that fetch_station_readings can return
SummaryRows ==
    {[dateTime |-> IsoTime(t), value |-> v, parameter |-> p, qualifier |-> q, unit |-> u,
      measure_id |-> Empty] :
        t \in {1, 2}, v \in {5, 7}, p \in {<<"l">>, <<"f">>},
        q \in {Empty, <<"S">>, <<"T">>}, u \in {Empty, <<"m">>}}

InitSummary ==
    /\ Constructed
    /\ input \in {[readings_df |-> df, pick |-> k] :
                     df \in NonEmptySeqs(SummaryRows, MaxReadings), k \in 1..MaxReadings}
    /\ input.pick \in Positions(Parameters(input.readings_df))
    /\ output = Idle
    /\ pc = "call"

\* lines 213-228 and 260 on a non-empty readings DataFrame
Summarise ==
    /\ pc = "call"
    /\ LET measure_df == MeasureDf(input.readings_df, input.pick)
       IN  output' = [selected_param |-> Parameters(input.readings_df)[
                                            IF Len(Parameters(input.readings_df)) > 1
                                            THEN input.pick ELSE 1],
                      measure_df |-> measure_df,
                      qualifier_str |-> QualifierStr(measure_df),
                      unit |-> UnitStr(measure_df),
                      latest |-> LatestValue(measure_df)]
    /\ pc' = "done"
    /\ UNCHANGED <<now, stCache, rdCache, failed, callSt, callRd, requests, view, runs,
                   ticks, input>>

SpecSummary == InitSummary /\ [][Summarise]_vars

\* the positions of the readings of the selected parameter, in server order
OfParam == {k \in 1..Len(input.readings_df) :
               input.readings_df[k].parameter = output.selected_param}

InstantAt(k) == input.readings_df[k].dateTime.instant

\* the first non-empty value of a column among the selected readings, or the
\* placeholder when every value is empty
FirstNonEmpty(Col(_), placeholder) ==
    LET filled == {k \in OfParam : Col(input.readings_df[k]) # Empty}
    IN  IF filled = {} THEN placeholder
        ELSE Col(input.readings_df[CHOOSE k \in filled : \A j \in filled : k <= j])

\* C7 (as stated): the qualifier and the unit of the summary are each taken
\* from the first selected reading whose qualifier (unit) is non-empty, and
\* the placeholder is used only when the field is empty in every reading.
C7_FirstNonEmptyQualifierAndUnit ==
    pc = "done" =>
        /\ output.qualifier_str = FirstNonEmpty(LAMBDA r : r.qualifier, Standard)
        /\ output.unit = FirstNonEmpty(LAMBDA r : r.unit, UnitsUnknown)

\* C8 (as stated): with the server order chronological ascending and kept,
\* "Latest Value" is the value of the selected reading with the most recent
\* timestamp.
C8_LatestIsMostRecentWhenAscending ==
    (pc = "done" /\ \A a, b \in OfParam : a < b => InstantAt(a) <= InstantAt(b)) =>
        \E k \in OfParam :
            /\ output.latest = input.readings_df[k].value
            /\ \A j \in OfParam : InstantAt(j) <= InstantAt(k)

\* C8 (amended): "Latest Value" is the value of the first reading of the
\* selected parameter in server order, which fetch_station_readings keeps;
\* it is the value of a reading with the most recent timestamp when the
\* server order is most recent first.
C8_LatestIsFirstInServerOrder ==
    pc = "done" =>
        LET first == CHOOSE k \in OfParam : \A j \in OfParam : k <= j
        IN  /\ output.latest = input.readings_df[first].value
            /\ (\A a, b \in OfParam : a < b => InstantAt(a) >= InstantAt(b))
                  => \A j \in OfParam : InstantAt(j) <= InstantAt(first)

\* C8 witness: two readings of the selected parameter, the more recent first,
\* with different values
C8_Witness ==
    /\ pc = "done"
    /\ Len(output.measure_df) = 2
    /\ output.measure_df[1].dateTime.instant > output.measure_df[2].dateTime.instant
    /\ output.measure_df[1].value # output.measure_df[2].value
    /\ output.latest = output.measure_df[1].value

\* ---- the selection step of main() ----

MaxSelectRows == 2

MaxIdLen == 2

IdChars == {"s", "(", ")"}

SelectRows ==
    {[id |-> i, label |-> l, river |-> Unknown, status |-> Unknown] :
        i \in SeqsUpTo(IdChars, MaxIdLen), l \in {<<"a">>, <<"b">>}}

InitSelect ==
    /\ Constructed
    /\ input \in {[stations_df |-> df, search_query |-> q, i |-> k] :
                     df \in {d \in NonEmptySeqs(SelectRows, MaxSelectRows) : LabelAscending(d)},
                     q \in {Empty, <<"a">>},
                     k \in 1..MaxSelectRows}
    /\ input.i \in Positions(FilterStations(input.stations_df, input.search_query,
                                            AllRivers, AllStatuses))
    /\ output = Idle
    /\ pc = "call"

\* lines 155-197 on a loaded catalog: filter, pick, decode, look up
Select ==
    /\ pc = "call"
    /\ LET sel == SelectStation(input.stations_df, input.search_query,
                                AllRivers, AllStatuses, input.i)
       IN  output' = [fetch |-> ReadingsWanted(sel)] @@ sel
    /\ pc' = "done"
    /\ UNCHANGED <<now, stCache, rdCache, failed, callSt, callRd, requests, view, runs,
                   ticks, input>>

SpecSelect == InitSelect /\ [][Select]_vars

\* C10 (as stated): readings are fetched only when the filtered set is not
\* empty, and whenever it is not empty the station shown, and the id passed to
\* fetch_station_readings, are those of the row the user picked: decoding the
\* option string "label (id)" recovers that row.
C10_SelectedIsPickedRow ==
    pc = "done" =>
        /\ output.fetch => output.filtered_df # << >>
        /\ output.filtered_df # << >> =>
              /\ output.outcome = "selected"
              /\ output.selected_station = output.picked
              /\ output.selected_station_id = output.picked.id

=============================================================================
